---- MODULE Spec2Model ----
(***************************************************************************)
(* p2p-fileshare: the node (p2p_node.py), the client (p2p_client.py) and   *)
(* the shared crypto / resume-store helpers (file_share/).                 *)
(*                                                                         *)
(* Three specifications share the variables:                               *)
(*   Spec        the node: catalog, watcher events, accept loop and the    *)
(*               per-connection handler threads;                           *)
(*   SpecCrypto  key derivation and Fernet encrypt/decrypt on both ends;   *)
(*   SpecClient  P2PClient.download_file_chunked against a serving peer.   *)
(***************************************************************************)
EXTENDS Integers, Sequences, FiniteSets, TLC

(***************************************************************************)
(* Bounds.  ChunkSize stands for the 1 MiB chunk (1024 * 1024 bytes in     *)
(* p2p_node.py:273 and p2p_client.py:133), scaled down so that files of a  *)
(* few bytes span zero, one and several chunks.                            *)
(***************************************************************************)
ChunkSize == 2
MaxFileSize == 3
MaxConns == 2
MaxEvents == 1
MaxChunkIndex == 3

\* ShareNames: the names a file of the share directory may have; FileNames:
\* the names a request may carry, one of them a path out of the share
\* directory that names no file of it.
ShareNames == {"a.txt"}
FileNames == ShareNames \cup {"../b.txt"}
Conns == 1..MaxConns

Min(a, b) == IF a < b THEN a ELSE b

(***************************************************************************)
(* Files.  A file is its byte sequence; the byte at 1-based position j of  *)
(* a file of n bytes is (7 * j + n) % 256, so any misplaced, dropped or    *)
(* duplicated range changes the sequence.                                  *)
(***************************************************************************)
Bytes(n) == [j \in 1..n |-> (7 * j + n) % 256]
FileContents == {Bytes(n) : n \in 0..MaxFileSize}

\* hashlib.md5(...).hexdigest(): collision-free on the contents modelled.
Md5(content) == <<"md5", content>>

\* f.seek(offset); f.read(n): the bytes [offset, offset + n) that exist.
ReadAtWrongSeek(content, offset, n) ==
    IF offset + 1 >= Len(content) THEN <<>>
    ELSE SubSeq(content, offset + 2, Min(offset + 1 + n, Len(content)))
ReadAt(content, offset, n) ==
    IF offset >= Len(content) THEN <<>>
    ELSE SubSeq(content, offset + 1, Min(offset + n, Len(content)))

\* ceil(S / C), as the client computes it.
TotalChunks(size) == (size + ChunkSize - 1) \div ChunkSize

(***************************************************************************)
(* Cipher.  PBKDF2-HMAC-SHA256 is a function of (password, salt,           *)
(* iterations), taken collision-free; a Fernet token carries the key it    *)
(* was sealed under, a fresh IV and the plaintext, and opens only under    *)
(* that key (InvalidToken otherwise).                                      *)
(***************************************************************************)
IVs == {0, 1}

Pbkdf2(password, salt) ==
    [kdf |-> "pbkdf2-hmac-sha256", salt |-> salt, iterations |-> 100000,
     password |-> password]

\* P2PNode._derive_key
NodeDeriveKey(password) == Pbkdf2(password, "p2p_fileshare_salt_")

\* Crypto.__init__: the key derivation after the length check
CryptoDeriveKey(key) == Pbkdf2(key, "p2p_file_share_salt")

FernetEncrypt(k, iv, data) == [key |-> k, iv |-> iv, data |-> data]

FernetDecrypt(k, token) ==
    IF token.key = k THEN [ok |-> TRUE, data |-> token.data]
    ELSE [ok |-> FALSE, data |-> <<>>]

B64Encode(x) == [b64 |-> x]
B64Decode(y) == y.b64

VARIABLES
    \* ---- node ----
    share_dir,        \* the share directory: name -> bytes, for the files in it
    available_files,  \* P2PNode.available_files: name -> entry
    key,              \* P2PNode.key, the configured passphrase
    running,          \* P2PNode.running
    server_socket,    \* "None" | "listening" | "closed"
    observer,         \* "running" | "stopped": the watchdog observer thread
    events,           \* file-system events queued for the observer
    pc,               \* per connection slot: "none" | "reading" | "lookedup"
    path,             \* per connection: file_path held between lookup and read
    out,              \* what the step just taken put on the wire, if anything
    \* ---- cipher round trip ----
    cr,               \* the passphrases, the plaintext, the token, the outcome
    \* ---- client ----
    cl_key,           \* P2PClient.key, the passphrase its Crypto was built from
    peer_fernet,      \* the Fernet key the serving peer seals chunks under
    srv_file,         \* the bytes of the file on the serving peer
    dl,               \* the frame of download_file_chunked
    fs_final,         \* the file at final_path
    fs_temp,          \* the file at temp_path (final_path + '.part')
    download_states,  \* ResumeManager.download_states
    hist,             \* history of the attempts, for stating the properties
    \* ---- share directory, beyond its regular files ----
    sub_dirs,         \* names of the directories directly under the share
                      \* directory; each holds one regular file
    \* ---- resume store ----
    state_file,       \* ResumeManager.state_file, the file on disk
    now,              \* time.time()
    resume_manager,   \* "None" | "loaded": the process's ResumeManager
    \* ---- the node's threads at the catalog ----
    file_lock,        \* P2PNode.file_lock: "free", "scan" or the connection
                      \* whose handler holds it
    scan,             \* the frame of scan_shared_files in the observer thread
    handler,          \* per connection: what its handler does under the lock
    finished,         \* the map the last scan that ran to its end built
    \* ---- the watcher's fallback, and stop() ----
    polling_active,   \* P2PNode.polling_active: "unset" | "True" | "False"
    polling_thread,   \* poll_files: "none" | "sleeping" | "ended"
    stop_result,      \* stop(): "not called" | "returned" | "raised"
    last_files        \* poll_files: the names its last scan returned

nodeVars == <<share_dir, available_files, key, running, server_socket,
              observer, events, pc, path, out>>

clientVars == <<cl_key, peer_fernet, srv_file, dl, fs_final, fs_temp,
                download_states, hist>>

scanVars == <<sub_dirs>>

storeVars == <<state_file, now, resume_manager>>

lockVars == <<file_lock, scan, handler, finished>>

watchVars == <<polling_active, polling_thread, stop_result, last_files>>

vars == <<nodeVars, cr, clientVars, scanVars, storeVars, lockVars, watchVars>>

(***************************************************************************)
(* The catalog.                                                            *)
(***************************************************************************)
NoneEntry == [kind |-> "None"]
EmptyMap == [n \in {} |-> NoneEntry]
FilePath(name) == <<"share_dir", name>>
Dirs == UNION {[S -> FileContents] : S \in SUBSET ShareNames}

\* P2PNode._get_file_info: size, md5 and path, or None when the read raises.
GetFileInfoEntry(dir, name, readable) ==
    IF readable
    THEN [kind |-> "info", size |-> Len(dir[name]), hash |-> Md5(dir[name]),
          path |-> FilePath(name)]
    ELSE NoneEntry

\* share_dir.iterdir(): the names directly under the share directory, files
\* and directories alike, hidden or not; file_path.is_file().
IterDir(dir) == DOMAIN dir \cup sub_dirs
IsFile(dir, name) == name \in DOMAIN dir

\* The local map `files` scan_shared_files builds from iterdir().
ScanResult(dir, bad) ==
    [name \in {n \in IterDir(dir) : IsFile(dir, n)} |->
        GetFileInfoEntry(dir, name, name \notin bad)]

\* scan_shared_files: the catalog it leaves, and the map it returns.  When
\* the enumeration raises, the catalog is kept and {} is returned.
ScanCatalog(cat, dir, bad, fails) == IF fails THEN cat ELSE ScanResult(dir, bad)
ScanReturn(dir, bad, fails) == IF fails THEN EmptyMap ELSE ScanResult(dir, bad)

(***************************************************************************)
(* Requests and responses.                                                 *)
(***************************************************************************)
Missing == "<missing>"      \* request.get(...) gave None
Unhashable == "<array>"     \* a JSON array where a string is expected
NoIndex == [int |-> FALSE, v |-> 0]
IndexArgs == {[int |-> TRUE, v |-> n] : n \in (-1)..MaxChunkIndex} \cup {NoIndex}

Req(w, cmd, f) == [wire |-> w, command |-> cmd, filename |-> f]
Requests ==
    {Req(w, Missing, Missing) : w \in {"malformed", "nonobject", "nonutf8"}}
    \cup {Req("object", cmd, Missing) : cmd \in {"list_files", "delete_file", Missing}}
    \cup {Req("object", cmd, f) : cmd \in {"get_file_info", "download_chunk"},
                                  f \in FileNames \cup {Missing, Unhashable}}

ErrorResponse(m) == [status |-> "error", message |-> m]
NoResp == [status |-> "none"]
Returned(r) == [raised |-> FALSE, resp |-> r]
Raised == [raised |-> TRUE, resp |-> NoResp]

\* P2PNode.list_files: info['size'] raises TypeError on a None entry.
ListFiles(cat) ==
    IF \E n \in DOMAIN cat : cat[n].kind = "None"
    THEN Raised
    ELSE Returned([status |-> "success",
                   files |-> [n \in DOMAIN cat |->
                                [size |-> cat[n].size, hash |-> cat[n].hash]]])

\* P2PNode.get_file_info: `filename in dict` raises on an unhashable name.
GetFileInfo(cat, filename) ==
    IF filename = Unhashable THEN Raised
    ELSE IF filename \in DOMAIN cat
    THEN Returned([status |-> "success", file_info |-> cat[filename]])
    ELSE Returned(ErrorResponse("File not found"))

DownloadChunkLookupJoin(cat, filename) ==
    [found |-> TRUE, path |-> <<"share_dir", filename>>]

\* P2PNode.download_chunk, the part under file_lock: the lookup of the path.
\* Every exception is caught by download_chunk itself and answered.
DownloadChunkLookup(cat, filename) ==
    IF filename = Unhashable
    THEN [found |-> FALSE, resp |-> ErrorResponse("TypeError: unhashable type")]
    ELSE IF filename \notin DOMAIN cat
    THEN [found |-> FALSE, resp |-> ErrorResponse("File not found")]
    ELSE IF cat[filename].kind = "None"
    THEN [found |-> FALSE,
          resp |-> ErrorResponse("TypeError: 'NoneType' object is not subscriptable")]
    ELSE [found |-> TRUE, path |-> cat[filename].path]

DownloadChunkReadEmptyOk(dir, fernet, file_path, idx, iv) ==
    LET name == file_path[2] IN
    IF name \notin DOMAIN dir
    THEN ErrorResponse("FileNotFoundError")
    ELSE IF ~idx.int
    THEN ErrorResponse("TypeError: unsupported operand")
    ELSE IF idx.v < 0
    THEN ErrorResponse("OSError: Invalid argument")
    ELSE LET chunk_data == ReadAt(dir[name], idx.v * ChunkSize, ChunkSize) IN
         [status |-> "success",
          chunk_data |-> B64Encode(FernetEncrypt(fernet, iv, chunk_data)),
          chunk_size |-> Len(chunk_data)]

\* P2PNode.download_chunk, after the lock is released: open, seek, read,
\* encrypt.
DownloadChunkRead(dir, fernet, file_path, idx, iv) ==
    LET name == file_path[2] IN
    IF name \notin DOMAIN dir
    THEN ErrorResponse("FileNotFoundError")
    ELSE IF ~idx.int
    THEN ErrorResponse("TypeError: unsupported operand")
    ELSE IF idx.v < 0
    THEN ErrorResponse("OSError: Invalid argument")
    ELSE LET chunk_data == ReadAt(dir[name], idx.v * ChunkSize, ChunkSize) IN
         IF chunk_data # <<>>
         THEN [status |-> "success",
               chunk_data |-> B64Encode(FernetEncrypt(fernet, iv, chunk_data)),
               chunk_size |-> Len(chunk_data)]
         ELSE ErrorResponse("Chunk not available")

ProcessRequestStrict(cat, req) ==
    IF req.wire = "nonobject" THEN Raised
    ELSE IF req.command = "list_files" THEN ListFiles(cat)
    ELSE IF req.command = "get_file_info" THEN GetFileInfo(cat, req.filename)
    ELSE IF req.command = "download_chunk"
    THEN Returned(DownloadChunkLookup(cat, req.filename).resp)
    ELSE Raised

\* P2PNode.process_request for every command but a download_chunk that
\* finds its file: request.get raises AttributeError on a non-object.
ProcessRequest(cat, req) ==
    IF req.wire = "nonobject" THEN Raised
    ELSE IF req.command = "list_files" THEN ListFiles(cat)
    ELSE IF req.command = "get_file_info" THEN GetFileInfo(cat, req.filename)
    ELSE IF req.command = "download_chunk"
    THEN Returned(DownloadChunkLookup(cat, req.filename).resp)
    ELSE Returned(ErrorResponse("Unknown command"))

IsProtocolError(req) ==
    \/ req.wire = "malformed"
    \/ req.wire = "object"
       /\ req.command \notin {"list_files", "get_file_info", "download_chunk"}

NoOut == [kind |-> "none", conn |-> 0]
Sent(c, req, resp, afterErr) ==
    [kind |-> "response", conn |-> c, req |-> req, resp |-> resp,
     after_error |-> afterErr]
NoReq == Req("none", Missing, Missing)
Closed(c, req, cause) ==
    [kind |-> "closed", conn |-> c, req |-> req, cause |-> cause]

(***************************************************************************)
(* The node.  Init is the state P2PNode.__init__ leaves: the first scan    *)
(* done, the observer started, the server not yet listening.               *)
(***************************************************************************)
NodeKeys == {"password"}

NodeInitOver(dirs) ==
    /\ share_dir \in dirs
    /\ key \in NodeKeys
    /\ \E bad \in SUBSET DOMAIN share_dir, fails \in BOOLEAN :
          available_files = ScanCatalog(EmptyMap, share_dir, bad, fails)
    /\ running = FALSE
    /\ server_socket = "None"
    /\ observer = "running"
    /\ events = 0
    /\ pc = [c \in Conns |-> "none"]
    /\ path = [c \in Conns |-> FilePath(Missing)]
    /\ out = NoOut

NodeInit == NodeInitOver(Dirs)

\* The share directory holds no directory.
NoSubDirs == sub_dirs = {}

\* The process lives until stop() has run and main returns.
Alive == server_socket # "closed"

\* The node has no polling thread and stop() was not called.
WatchIdle ==
    /\ polling_active = "unset"
    /\ polling_thread = "none"
    /\ stop_result = "not called"
    /\ last_files = {}

\* stop_file_watcher: self.observer.stop() raises AttributeError when the
\* attribute is still None, self.observer.join() raises RuntimeError on an
\* observer thread that was never started.
StopFileWatcherRaises == observer \in {"None", "unstarted"}

\* P2PNode.stop and stop_file_watcher.
Stop ==
    /\ running' = FALSE
    /\ IF StopFileWatcherRaises
       THEN /\ stop_result' = "raised"
            /\ UNCHANGED <<observer, polling_active, server_socket>>
       ELSE /\ stop_result' = "returned"
            /\ observer' = "stopped"
            /\ polling_active' = IF polling_active = "unset" THEN "unset"
                                 ELSE "False"
            /\ server_socket' = "closed"
    /\ out' = NoOut
    /\ UNCHANGED <<cr, scanVars, lockVars, storeVars, clientVars, polling_thread,
                   last_files, share_dir, available_files, key, events, pc,
                   path>>

\* start_server up to the accept loop; a bind or listen that raises goes to
\* the finally clause, which stops the node.
StartServer(bindOk) ==
    /\ server_socket = "None"
    /\ IF bindOk
       THEN /\ running' = TRUE
            /\ server_socket' = "listening"
            /\ out' = NoOut
            /\ UNCHANGED <<cr, scanVars, lockVars, watchVars, storeVars, clientVars, share_dir, available_files, key, observer, events,
                           pc, path>>
       ELSE Stop

\* The accept loop takes a connection and starts its handler thread.
Accept(c) ==
    /\ running
    /\ server_socket = "listening"
    /\ pc[c] = "none"
    /\ pc' = [pc EXCEPT ![c] = "reading"]
    /\ out' = NoOut
    /\ UNCHANGED <<cr, scanVars, lockVars, watchVars, storeVars, clientVars, share_dir, available_files, key, running, server_socket,
                   observer, events, path>>

\* accept() raises something other than socket.timeout, or the operator
\* interrupts the node: start_server's finally clause runs stop().
ServerStops ==
    /\ running
    /\ Stop

\* The answer the handler put on this connection in the step just before
\* was a protocol error (malformed JSON, unknown or missing command).
AfterError(c) ==
    /\ out.kind = "response"
    /\ out.conn = c
    /\ IsProtocolError(out.req)

\* The handler thread leaves its loop: finally closes the socket.
CloseConnectionStopsNode(c, req, cause) ==
    /\ pc' = [pc EXCEPT ![c] = "none"]
    /\ path' = [path EXCEPT ![c] = FilePath(Missing)]
    /\ out' = Closed(c, req, cause)
    /\ running' = FALSE
    /\ server_socket' = "closed"
    /\ UNCHANGED <<cr, scanVars, lockVars, watchVars, storeVars, clientVars, share_dir, available_files, key, observer, events>>
CloseConnection(c, req, cause) ==
    /\ pc' = [pc EXCEPT ![c] = "none"]
    /\ path' = [path EXCEPT ![c] = FilePath(Missing)]
    /\ out' = Closed(c, req, cause)
    /\ UNCHANGED <<cr, scanVars, lockVars, watchVars, storeVars, clientVars, share_dir, available_files, key, running, server_socket,
                   observer, events>>

\* client_socket.send(json.dumps(response)): the response goes out and the
\* loop returns to recv, or send raises and the handler closes.
SendResponse(c, req, resp, sendOk) ==
    IF sendOk
    THEN /\ pc' = [pc EXCEPT ![c] = "reading"]
         /\ path' = [path EXCEPT ![c] = FilePath(Missing)]
         /\ out' = Sent(c, req, resp, AfterError(c))
         /\ UNCHANGED <<cr, scanVars, lockVars, watchVars, storeVars, clientVars, share_dir, available_files, key, running, server_socket,
                        observer, events>>
    ELSE CloseConnection(c, req, "send raised")

\* recv returns b'': the peer closed; or recv raises.
ConnectionEnds(c, cause) ==
    /\ Alive
    /\ pc[c] = "reading"
    /\ CloseConnection(c, NoReq, cause)

\* One turn of handle_client's loop: recv, decode, json.loads,
\* process_request, send.  A download_chunk that finds its file stops after
\* the lookup, with the lock released and the file not yet opened.  Where
\* the turn ends before send is called, sendOk has nothing to decide and is
\* held at TRUE.
HandleRequest(c, req, sendOk) ==
    /\ Alive
    /\ pc[c] = "reading"
    /\ IF req.wire = "nonutf8"
       THEN sendOk /\ CloseConnection(c, req, "UnicodeDecodeError")
       ELSE IF req.wire = "malformed"
       THEN SendResponse(c, req, ErrorResponse("Invalid JSON"), sendOk)
       ELSE IF /\ req.wire = "object"
               /\ req.command = "download_chunk"
               /\ DownloadChunkLookup(available_files, req.filename).found
       THEN /\ sendOk
            /\ pc' = [pc EXCEPT ![c] = "lookedup"]
            /\ path' = [path EXCEPT ![c] =
                           DownloadChunkLookup(available_files, req.filename).path]
            /\ out' = NoOut
            /\ UNCHANGED <<cr, scanVars, lockVars, watchVars, storeVars, clientVars, share_dir, available_files, key, running,
                           server_socket, observer, events>>
       ELSE LET r == ProcessRequest(available_files, req) IN
            IF r.raised
            THEN sendOk /\ CloseConnection(c, req, "process_request raised")
            ELSE SendResponse(c, req, r.resp, sendOk)

\* The rest of download_chunk and the send.  The chunk index the request
\* carries is first used here, so it is drawn here.  Fernet draws an IV only
\* when a chunk is encrypted; otherwise iv is held at 0.
HandleChunkRead(c, idx, iv, sendOk) ==
    /\ Alive
    /\ pc[c] = "lookedup"
    /\ \/ iv = 0
       \/ DownloadChunkRead(share_dir, NodeDeriveKey(key), path[c], idx, iv).status
             = "success"
    /\ SendResponse(c,
                    [wire |-> "object", command |-> "download_chunk",
                     filename |-> path[c][2], chunk_index |-> idx],
                    DownloadChunkRead(share_dir, NodeDeriveKey(key), path[c], idx, iv),
                    sendOk)

(***************************************************************************)
(* The share directory changes under the node; the observer turns created  *)
(* and deleted events into update_available_files.  A modification in      *)
(* place has no handler in ShareDirectoryHandler.                          *)
(***************************************************************************)
Notify == IF observer = "running" THEN events + 1 ELSE events

FsCreate(name, content) ==
    /\ Alive
    /\ events < MaxEvents
    /\ name \notin DOMAIN share_dir
    /\ share_dir' = [n \in DOMAIN share_dir \cup {name} |->
                       IF n = name THEN content ELSE share_dir[n]]
    /\ events' = Notify
    /\ out' = NoOut
    /\ UNCHANGED <<cr, scanVars, lockVars, watchVars, storeVars, clientVars, available_files, key, running, server_socket, observer,
                   pc, path>>

FsDelete(name) ==
    /\ Alive
    /\ events < MaxEvents
    /\ name \in DOMAIN share_dir
    /\ share_dir' = [n \in DOMAIN share_dir \ {name} |-> share_dir[n]]
    /\ events' = Notify
    /\ out' = NoOut
    /\ UNCHANGED <<cr, scanVars, lockVars, watchVars, storeVars, clientVars, available_files, key, running, server_socket, observer,
                   pc, path>>

FsModify(name, content) ==
    /\ Alive
    /\ name \in DOMAIN share_dir
    /\ content # share_dir[name]
    /\ share_dir' = [share_dir EXCEPT ![name] = content]
    /\ out' = NoOut
    /\ UNCHANGED <<cr, scanVars, lockVars, watchVars, storeVars, clientVars, available_files, key, running, server_socket, observer,
                   events, pc, path>>

\* What a refresh of the catalog printed: whether the enumeration raised,
\* the files whose read raised, and the names reported added and removed.
Scanned(fails, bad, added, removed) ==
    [kind |-> "scan", conn |-> 0, enum_failed |-> fails, unreadable |-> bad,
     added |-> added, removed |-> removed]

\* P2PNode.update_available_files, run by the observer thread per event:
\* the scan, then the added and removed names computed from its return.
UpdateAvailableFiles(bad, fails) ==
    /\ observer = "running"
    /\ events > 0
    /\ events' = events - 1
    /\ available_files' = ScanCatalog(available_files, share_dir, bad, fails)
    /\ LET old_files == DOMAIN available_files
           new_files == ScanReturn(share_dir, bad, fails)
       IN out' = Scanned(fails, bad, DOMAIN new_files \ old_files,
                         old_files \ DOMAIN new_files)
    /\ UNCHANGED <<cr, scanVars, lockVars, watchVars, storeVars, clientVars, share_dir, key, running, server_socket, observer, pc, path>>

NodeNext ==
    \/ \E bindOk \in BOOLEAN : StartServer(bindOk)
    \/ \E c \in Conns : Accept(c)
    \/ ServerStops
    \/ \E c \in Conns, cause \in {"peer closed", "recv raised"} :
          ConnectionEnds(c, cause)
    \/ \E c \in Conns, req \in Requests, sendOk \in BOOLEAN :
          HandleRequest(c, req, sendOk)
    \/ \E c \in Conns, idx \in IndexArgs, iv \in IVs, sendOk \in BOOLEAN :
          HandleChunkRead(c, idx, iv, sendOk)
    \/ \E name \in ShareNames, content \in FileContents : FsCreate(name, content)
    \/ \E name \in ShareNames : FsDelete(name)
    \/ \E name \in ShareNames, content \in FileContents : FsModify(name, content)
    \/ \E bad \in SUBSET DOMAIN share_dir, fails \in BOOLEAN :
          UpdateAvailableFiles(bad, fails)

\* The node before P2PNode is constructed: what the other specifications
\* hold the node's variables at.
NodeIdle ==
    /\ share_dir = EmptyMap
    /\ available_files = EmptyMap
    /\ key = "password"
    /\ running = FALSE
    /\ server_socket = "None"
    /\ observer = "stopped"
    /\ events = 0
    /\ pc = [c \in Conns |-> "none"]
    /\ path = [c \in Conns |-> FilePath(Missing)]
    /\ out = NoOut

(***************************************************************************)
(* The cipher round trip: the node seals a chunk under the key it derives  *)
(* from its passphrase, a client Crypto built from a passphrase opens it.  *)
(***************************************************************************)
Passphrases == {"password", "passw0rd9", "long-passphrase", "short"}
MinKeyLen == 8
Plaintexts == {Bytes(n) : n \in 1..ChunkSize}
NoToken == FernetEncrypt(Pbkdf2("", ""), 0, <<>>)
NoResult == [ok |-> FALSE, data |-> <<>>]

CryptoIdle ==
    cr = [stage |-> "idle", node_pw |-> "", client_pw |-> "", plain |-> <<>>,
          token |-> NoToken, result |-> NoResult]

CryptoInit ==
    \E p \in Passphrases, q \in Passphrases, data \in Plaintexts :
        cr = [stage |-> "start", node_pw |-> p, client_pw |-> q, plain |-> data,
              token |-> NoToken, result |-> NoResult]

\* Crypto.__init__: a key under 8 characters raises ValueError.
CryptoAccepts(k) == Len(k) >= MinKeyLen

CryptoConstruct ==
    /\ cr.stage = "start"
    /\ cr' = [cr EXCEPT !.stage = IF CryptoAccepts(cr.client_pw)
                                  THEN "constructed" ELSE "rejected"]
    /\ UNCHANGED <<nodeVars, scanVars, lockVars, watchVars, storeVars, clientVars>>

\* P2PNode.download_chunk: self.fernet.encrypt(chunk_data), self.fernet being
\* _derive_key(self.key).  The node checks no key length.
NodeEncrypt(iv) ==
    /\ cr.stage = "constructed"
    /\ cr' = [cr EXCEPT !.stage = "sealed",
                        !.token = FernetEncrypt(NodeDeriveKey(cr.node_pw), iv, cr.plain)]
    /\ UNCHANGED <<nodeVars, scanVars, lockVars, watchVars, storeVars, clientVars>>

\* Crypto.decrypt
CryptoDecrypt ==
    /\ cr.stage = "sealed"
    /\ cr' = [cr EXCEPT !.stage = "opened",
                        !.result = FernetDecrypt(CryptoDeriveKey(cr.client_pw), cr.token)]
    /\ UNCHANGED <<nodeVars, scanVars, lockVars, watchVars, storeVars, clientVars>>

CryptoNext ==
    \/ CryptoConstruct
    \/ \E iv \in IVs : NodeEncrypt(iv)
    \/ CryptoDecrypt

(***************************************************************************)
(* The resume store: ResumeManager over its state file.  Retention stands  *)
(* for the 7 days of resume_manager.py:22 and ProgressSaveEvery for the    *)
(* 1 MiB of resume_manager.py:63, in the units of `now` and of the byte    *)
(* counts modelled.  A save is open(state_file, 'w'), which empties the    *)
(* file, then json.dump, which writes it piece by piece.                   *)
(***************************************************************************)
Retention == 2
ProgressSaveEvery == 2
MaxNow == 2
MaxDownloaded == 3
StoreNames == {"a.txt", "c.bin"}
StoreSizes == {1}

Absent == [kind |-> "absent", states |-> EmptyMap]
\* An empty or cut-off file: json.load raises on it.
Corrupt == [kind |-> "corrupt", states |-> EmptyMap]
\* The file json.dump wrote completely; json.load gives the same map back.
JsonFile(states) == [kind |-> "json", states |-> states]

Entry(total_size, downloaded, timestamp) ==
    [total_size |-> total_size, downloaded |-> downloaded, active |-> TRUE,
     timestamp |-> timestamp]

\* dict[filename] = entry
Put(states, filename, entry) ==
    [n \in DOMAIN states \cup {filename} |->
        IF n = filename THEN entry ELSE states[n]]

\* ResumeManager.save_states: the file it leaves.  "open raised": nothing
\* was touched; "write raised": the exception is caught with the file cut
\* off; "crash": the process died between open and the end of json.dump.
SaveOutcomes == {"ok", "open raised", "write raised", "crash"}
SaveStates(file, states, outcome) ==
    IF outcome = "ok" THEN JsonFile(states)
    ELSE IF outcome = "open raised" THEN file
    ELSE Corrupt

\* _load_states: the entries younger than the retention window.
ValidStatesKeepsAll(states, current_time) == states
ValidStates(states, current_time) ==
    [n \in {m \in DOMAIN states :
               current_time - states[m].timestamp < Retention} |-> states[n]]

StoreOut(op, discarded, save) ==
    [kind |-> "store", conn |-> 0, op |-> op, discarded |-> discarded,
     save |-> save]

StoreIdle ==
    /\ state_file = Absent
    /\ now = 0
    /\ resume_manager = "None"

\* P2PClient.__init__ has built its ResumeManager from no state file.
StoreLoadedEmpty ==
    /\ state_file = Absent
    /\ now = 0
    /\ resume_manager = "loaded"

\* The call of save_states that ends an operation, and what is left of the
\* process after it.
SaveStep(states, outcome, op, discarded) ==
    /\ state_file' = SaveStates(state_file, states, outcome)
    /\ download_states' = IF outcome = "crash" THEN EmptyMap ELSE states
    /\ resume_manager' = IF outcome = "crash" THEN "None" ELSE "loaded"
    /\ out' = StoreOut(op, discarded, outcome)

NoSaveStep(states, op) ==
    /\ download_states' = states
    /\ out' = StoreOut(op, FALSE, "none")
    /\ UNCHANGED <<state_file, resume_manager>>

storeFrame ==
    <<cr, scanVars, lockVars, watchVars, share_dir, available_files, key, running, server_socket,
      observer, events, pc, path, cl_key, peer_fernet, srv_file, dl, fs_final,
      fs_temp, hist>>

\* ResumeManager.__init__: _load_states.
LoadStates(outcome) ==
    /\ resume_manager = "None"
    /\ IF state_file.kind = "json"
       THEN LET valid_states == ValidStates(state_file.states, now) IN
            IF Cardinality(DOMAIN valid_states)
                 # Cardinality(DOMAIN state_file.states)
            THEN SaveStep(valid_states, outcome, "load", TRUE)
            ELSE /\ outcome = "ok"
                 /\ resume_manager' = "loaded"
                 /\ download_states' = valid_states
                 /\ out' = StoreOut("load", FALSE, "none")
                 /\ UNCHANGED state_file
       ELSE /\ outcome = "ok"
            /\ resume_manager' = "loaded"
            /\ download_states' = EmptyMap
            /\ out' = StoreOut("load", FALSE, "none")
            /\ UNCHANGED state_file
    /\ UNCHANGED <<storeFrame, now>>

\* ResumeManager.register_download
RegisterDownload(filename, total_size, outcome) ==
    /\ resume_manager = "loaded"
    /\ SaveStep(Put(download_states, filename, Entry(total_size, 0, now)),
                outcome, "register", FALSE)
    /\ UNCHANGED <<storeFrame, now>>

\* ResumeManager.update_progress
UpdateProgress(filename, downloaded, outcome) ==
    /\ resume_manager = "loaded"
    /\ IF filename \in DOMAIN download_states
       THEN LET states == [download_states EXCEPT
                              ![filename].downloaded = downloaded]
            IN IF downloaded % ProgressSaveEvery = 0
               THEN SaveStep(states, outcome, "update", FALSE)
               ELSE outcome = "ok" /\ NoSaveStep(states, "update")
       ELSE outcome = "ok" /\ NoSaveStep(download_states, "update")
    /\ UNCHANGED <<storeFrame, now>>

\* ResumeManager.complete_download
CompleteDownload(filename, outcome) ==
    /\ resume_manager = "loaded"
    /\ IF filename \in DOMAIN download_states
       THEN SaveStep([n \in DOMAIN download_states \ {filename} |->
                        download_states[n]], outcome, "complete", FALSE)
       ELSE outcome = "ok" /\ NoSaveStep(download_states, "complete")
    /\ UNCHANGED <<storeFrame, now>>

\* The client process ends; the file stays.
ProcessExits ==
    /\ resume_manager = "loaded"
    /\ resume_manager' = "None"
    /\ download_states' = EmptyMap
    /\ out' = NoOut
    /\ UNCHANGED <<storeFrame, state_file, now>>

\* Time passes.
Tick ==
    /\ now < MaxNow
    /\ now' = now + 1
    /\ out' = NoOut
    /\ UNCHANGED <<storeFrame, state_file, resume_manager, download_states>>

StoreNext ==
    \/ \E outcome \in SaveOutcomes : LoadStates(outcome)
    \/ \E filename \in StoreNames, total_size \in StoreSizes,
          outcome \in SaveOutcomes :
          RegisterDownload(filename, total_size, outcome)
    \/ \E filename \in StoreNames, downloaded \in 0..MaxDownloaded,
          outcome \in SaveOutcomes :
          UpdateProgress(filename, downloaded, outcome)
    \/ \E filename \in StoreNames, outcome \in SaveOutcomes :
          CompleteDownload(filename, outcome)
    \/ ProcessExits
    \/ Tick

(***************************************************************************)
(* The client: P2PClient.download_file_chunked.  Every send_request is a   *)
(* connection to the peer at (host, port); what comes back is an input:    *)
(* no response (refused, timed out, unparsable), an error response, or the *)
(* answer of a peer that serves srv_file the way P2PNode.download_chunk    *)
(* does, sealing under peer_fernet.  The repository's node with the        *)
(* client's passphrase is the peer whose key is NodeDeriveKey(cl_key).     *)
(***************************************************************************)
MaxAttempts == 2
DownloadName == "a.txt"
ClientKeys == {"password"}
PeerFernets ==
    {CryptoDeriveKey("password"), NodeDeriveKey("password"),
     CryptoDeriveKey("passw0rd9")}

NoFile == [exists |-> FALSE, data |-> <<>>]
FileOf(data) == [exists |-> TRUE, data |-> data]
OldCopy == <<255>>

IdleFrame ==
    [pc |-> "idle", ended |-> "none", resume |-> TRUE, file_size |-> 0,
     existing_size |-> 0, start_chunk |-> 0, chunk_index |-> 0,
     result |-> "None"]

\* attempts: attempts started; partial_k: the chunks the current or last
\* attempt has in the local file since it opened it, -1 once a download has
\* completed or before any; partial_resume: that attempt's resume flag;
\* resumed_from, resumed_resume: partial_k and partial_resume as the current
\* attempt found them, so resumed_from = k >= 0 says the attempt before was
\* cut short after k chunks; first_req: index of the current attempt's
\* first download_chunk request (-1: none yet).
NoHist ==
    [attempts |-> 0, partial_k |-> -1, partial_resume |-> FALSE,
     resumed_from |-> -1, resumed_resume |-> FALSE, first_req |-> -1]

ClientIdle ==
    /\ cl_key = "password"
    /\ peer_fernet = NodeDeriveKey("password")
    /\ srv_file = <<>>
    /\ dl = IdleFrame
    /\ fs_final = NoFile
    /\ fs_temp = NoFile
    /\ download_states = EmptyMap
    /\ hist = NoHist

\* A fresh client: no .part file (nothing in the client writes one) and an
\* empty resume store (nothing in the client registers a download); the
\* destination may hold an earlier copy.
ClientInit ==
    /\ cl_key \in ClientKeys
    /\ peer_fernet \in PeerFernets
    /\ srv_file \in FileContents
    /\ dl = IdleFrame
    /\ fs_final \in {NoFile, FileOf(OldCopy)}
    /\ fs_temp = NoFile
    /\ download_states = EmptyMap
    /\ hist = NoHist

\* A client whose download directory already holds a .part file for the
\* name, left there by something other than this client.
PartFiles == {FileOf(Bytes(n)) : n \in 1..MaxFileSize}

ClientInitPart ==
    /\ cl_key \in ClientKeys
    /\ peer_fernet \in PeerFernets
    /\ srv_file \in FileContents
    /\ dl = IdleFrame
    /\ fs_final \in {NoFile, FileOf(OldCopy)}
    /\ fs_temp \in PartFiles
    /\ download_states = EmptyMap
    /\ hist = NoHist

\* download_file_chunked, "Handle resume": the size to resume from, and
\* whether temp_path is unlinked.
ResumeDecision(resume, temp, file_size) ==
    IF resume /\ temp.exists
    THEN IF Len(temp.data) < file_size
         THEN [existing_size |-> Len(temp.data), unlink |-> FALSE]
         ELSE [existing_size |-> 0, unlink |-> TRUE]
    ELSE [existing_size |-> 0, unlink |-> FALSE]

\* 'wb' if existing_size == 0 else 'ab'
OpenModeAlwaysAppend(existing_size) == "ab"
OpenMode(existing_size) == IF existing_size = 0 THEN "wb" ELSE "ab"

\* open(final_path, mode): 'wb' creates or truncates, 'ab' creates or keeps.
OpenFile(f, mode) ==
    IF mode = "wb" \/ ~f.exists THEN FileOf(<<>>) ELSE f

\* f.write(chunk_data); f.flush() on the open file.
WriteChunkFromStart(f, data) == FileOf(data)
WriteChunk(f, data) == FileOf(f.data \o data)

\* The answer of a peer serving srv_file as P2PNode.download_chunk does.
PeerDownloadChunk(srv, fernet, index, iv) ==
    DownloadChunkRead([n \in {DownloadName} |-> srv], fernet,
                      FilePath(DownloadName), [int |-> TRUE, v |-> index], iv)

InfoFailedAfterOpen(resume) ==
    /\ dl' = [IdleFrame EXCEPT !.pc = "returned", !.ended = "info failed",
                               !.resume = resume]
    /\ hist' = [hist EXCEPT !.attempts = @ + 1, !.first_req = -1,
                            !.resumed_from = -1, !.resumed_resume = FALSE]
    /\ fs_final' = OpenFile(fs_final, "wb")
    /\ UNCHANGED fs_temp

\* download_file_chunked when get_file_info gave no response or an error:
\* `return None` before any path is set up.
InfoFailed(resume) ==
    /\ dl' = [IdleFrame EXCEPT !.pc = "returned", !.ended = "info failed",
                               !.resume = resume]
    /\ hist' = [hist EXCEPT !.attempts = @ + 1, !.first_req = -1,
                            !.resumed_from = -1, !.resumed_resume = FALSE]
    /\ UNCHANGED <<fs_final, fs_temp>>

\* download_file_chunked up to the chunk loop: get_file_info, the resume
\* decision, open(final_path).  file_size is file_info['size'] as the peer
\* reported it: the size of the file it serves, or another one (a catalog
\* entry gone stale, a file that changes before the chunks are read).
StartDownload(resume, info, reported_size) ==
    /\ dl.pc \in {"idle", "returned", "interrupted"}
    /\ hist.attempts < MaxAttempts
    /\ IF info # "success"
       THEN /\ reported_size = 0
            /\ InfoFailed(resume)
       ELSE LET file_size == reported_size
                d == ResumeDecision(resume, fs_temp, file_size)
            IN /\ fs_temp' = IF d.unlink THEN NoFile ELSE fs_temp
               /\ fs_final' = OpenFile(fs_final, OpenMode(d.existing_size))
               /\ dl' = [pc |-> "chunks", ended |-> "none", resume |-> resume,
                         file_size |-> file_size,
                         existing_size |-> d.existing_size,
                         start_chunk |-> d.existing_size \div ChunkSize,
                         chunk_index |-> d.existing_size \div ChunkSize,
                         result |-> "None"]
               /\ hist' = [hist EXCEPT !.attempts = @ + 1, !.first_req = -1,
                                       !.resumed_from = hist.partial_k,
                                       !.resumed_resume = hist.partial_resume,
                                       !.partial_k = d.existing_size \div ChunkSize,
                                       !.partial_resume = resume]
    /\ UNCHANGED <<nodeVars, cr, scanVars, lockVars, watchVars, storeVars, cl_key, peer_fernet, srv_file, download_states>>

\* return None from inside the loop, or through `except Exception`: the
\* file is closed as it is.
AbortDownloadUnlinks ==
    /\ dl' = [dl EXCEPT !.pc = "returned", !.ended = "aborted", !.result = "None"]
    /\ fs_final' = NoFile
    /\ UNCHANGED <<fs_temp, download_states>>
AbortDownload ==
    /\ dl' = [dl EXCEPT !.pc = "returned", !.ended = "aborted", !.result = "None"]
    /\ UNCHANGED <<fs_final, fs_temp, download_states>>

\* One turn of the chunk loop: request, check, decode, decrypt, write.
DownloadChunk(kind, iv) ==
    /\ dl.pc = "chunks"
    /\ dl.chunk_index < TotalChunks(dl.file_size)
    /\ LET response ==
             IF kind = "error" THEN ErrorResponse("File not found")
             ELSE PeerDownloadChunk(srv_file, peer_fernet, dl.chunk_index, iv)
       IN IF kind = "none" \/ response.status # "success"
          THEN AbortDownload
          ELSE LET chunk == FernetDecrypt(CryptoDeriveKey(cl_key),
                                          B64Decode(response.chunk_data))
               IN IF ~chunk.ok
                  THEN AbortDownload
                  ELSE /\ fs_final' = WriteChunk(fs_final, chunk.data)
                       /\ dl' = [dl EXCEPT !.chunk_index = @ + 1]
                       /\ UNCHANGED <<fs_temp, download_states>>
    /\ hist' = [hist EXCEPT !.first_req = IF @ = -1 THEN dl.chunk_index ELSE @,
                            !.partial_k = dl'.chunk_index]
    /\ UNCHANGED <<nodeVars, cr, scanVars, lockVars, watchVars, storeVars, cl_key, peer_fernet, srv_file>>

\* After the loop: "Verify file size"; both branches return str(final_path).
FinishDownload ==
    /\ dl.pc = "chunks"
    /\ dl.chunk_index >= TotalChunks(dl.file_size)
    /\ dl' = [dl EXCEPT !.pc = "returned", !.ended = "completed", !.result = "path"]
    /\ hist' = [hist EXCEPT !.partial_k = -1, !.partial_resume = FALSE]
    /\ UNCHANGED <<nodeVars, cr, scanVars, lockVars, watchVars, storeVars, cl_key, peer_fernet, srv_file, fs_final,
                   fs_temp, download_states>>

\* The process is killed or interrupted (KeyboardInterrupt is not an
\* Exception) inside the loop; what was flushed stays.
InterruptDownload ==
    /\ dl.pc = "chunks"
    /\ dl' = [dl EXCEPT !.pc = "interrupted", !.ended = "interrupted",
                        !.result = "None"]
    /\ UNCHANGED <<nodeVars, cr, scanVars, lockVars, watchVars, storeVars, cl_key, peer_fernet, srv_file, fs_final,
                   fs_temp, download_states, hist>>

\* ResumeManager.list_incomplete_downloads
ListIncompleteDownloads(states) ==
    [k \in {n \in DOMAIN states : states[n].active} |-> states[k]]

\* P2PClient.list_incomplete_downloads: prints and returns, changes nothing.
ClientListIncomplete ==
    /\ dl.pc # "chunks"
    /\ UNCHANGED vars

\* P2PClient.cleanup_incomplete_downloads: unlink each entry's temp_path,
\* complete_download each entry.
ClientCleanup ==
    /\ dl.pc # "chunks"
    /\ LET incomplete == ListIncompleteDownloads(download_states) IN
       /\ fs_temp' = IF DownloadName \in DOMAIN incomplete THEN NoFile ELSE fs_temp
       /\ download_states' =
            [n \in DOMAIN download_states \ DOMAIN incomplete |-> download_states[n]]
       /\ state_file' = IF DOMAIN incomplete # {}
                        THEN SaveStates(state_file, download_states', "ok")
                        ELSE state_file
    /\ UNCHANGED <<nodeVars, cr, scanVars, lockVars, watchVars, now, resume_manager, cl_key,
                   peer_fernet, srv_file, dl, fs_final, hist>>

\* main: sys.exit(1) when download_file_chunked returned nothing, else the
\* process ends with code 0.
ExitCode(result) == IF result = "None" THEN 1 ELSE 0

ClientNext ==
    \/ \E resume \in BOOLEAN, info \in {"none", "error", "success"},
          reported_size \in 0..MaxFileSize :
          StartDownload(resume, info, reported_size)
    \/ \E kind \in {"none", "error", "chunk"}, iv \in IVs : DownloadChunk(kind, iv)
    \/ FinishDownload
    \/ InterruptDownload
    \/ ClientListIncomplete
    \/ ClientCleanup

(***************************************************************************)
(* The scan over a share directory that also holds a hidden file and a     *)
(* directory: the node after __init__, its observer and the file system,   *)
(* with no connection.                                                     *)
(***************************************************************************)
HiddenNames == {".hidden"}
ScanNames == ShareNames \cup HiddenNames
SubDirNames == {"sub"}
ScanDirs == UNION {[S -> FileContents] : S \in SUBSET ScanNames}

ScanInit ==
    /\ sub_dirs \in SUBSET SubDirNames
    /\ NodeInitOver(ScanDirs)

\* A directory holding a file appears under the share directory: the
\* observer is recursive, so the file in it raises a created event.
MkDir(d) ==
    /\ Alive
    /\ events < MaxEvents
    /\ d \notin sub_dirs
    /\ sub_dirs' = sub_dirs \cup {d}
    /\ events' = Notify
    /\ out' = NoOut
    /\ UNCHANGED <<cr, lockVars, watchVars, storeVars, clientVars, share_dir,
                   available_files, key, running, server_socket, observer, pc,
                   path>>

RmDir(d) ==
    /\ Alive
    /\ events < MaxEvents
    /\ d \in sub_dirs
    /\ sub_dirs' = sub_dirs \ {d}
    /\ events' = Notify
    /\ out' = NoOut
    /\ UNCHANGED <<cr, lockVars, watchVars, storeVars, clientVars, share_dir,
                   available_files, key, running, server_socket, observer, pc,
                   path>>

ScanNext ==
    \/ \E name \in ScanNames, content \in FileContents : FsCreate(name, content)
    \/ \E name \in ScanNames : FsDelete(name)
    \/ \E name \in ScanNames, content \in FileContents : FsModify(name, content)
    \/ \E d \in SubDirNames : MkDir(d)
    \/ \E d \in SubDirNames : RmDir(d)
    \/ \E bad \in SUBSET DOMAIN share_dir, fails \in BOOLEAN :
          UpdateAvailableFiles(bad, fails)

(***************************************************************************)
(* The threads of the node at the catalog: the observer thread runs        *)
(* scan_shared_files statement by statement, the connection threads run    *)
(* the readers; file_lock orders them.                                     *)
(***************************************************************************)
Free == <<>>
HeldByScan == <<"scan">>
HeldBy(c) == <<"conn", c>>

ScanIdle == [pc |-> "idle", todo |-> {}, files |-> EmptyMap]
HandlerIdle ==
    [pc |-> "idle", op |-> "none", filename |-> Missing,
     file_path |-> FilePath(Missing)]

\* No thread is at the catalog.
LockIdle ==
    /\ file_lock = Free
    /\ scan = ScanIdle
    /\ handler = [c \in Conns |-> HandlerIdle]
    /\ finished = EmptyMap

\* The share directory of this section: each file has the same one byte.
LockContent == Bytes(1)
LockDirs == UNION {[S -> {LockContent}] : S \in SUBSET ScanNames}

\* After __init__: its scan has run, no thread is at the catalog.
LockInit ==
    /\ share_dir \in LockDirs
    /\ key = "password"
    /\ available_files = ScanResult(share_dir, {})
    /\ running = FALSE
    /\ server_socket = "None"
    /\ observer = "running"
    /\ events = 0
    /\ pc = [c \in Conns |-> "none"]
    /\ path = [c \in Conns |-> FilePath(Missing)]
    /\ out = NoOut
    /\ file_lock = Free
    /\ scan = ScanIdle
    /\ handler = [c \in Conns |-> HandlerIdle]
    /\ finished = available_files

lockFrame ==
    <<cr, scanVars, storeVars, clientVars, watchVars, share_dir, key, running,
      server_socket, observer, pc, path>>

\* update_available_files enters scan_shared_files: files = {}, iterdir().
ScanBegin ==
    /\ observer = "running"
    /\ events > 0
    /\ scan.pc = "idle"
    /\ events' = events - 1
    /\ scan' = [pc |-> "iterating", todo |-> IterDir(share_dir),
                files |-> EmptyMap]
    /\ out' = NoOut
    /\ UNCHANGED <<lockFrame, available_files, file_lock, handler, finished>>

\* The map `files` after the loop body has run for one name.
Visited(files, name, readable) ==
    IF IsFile(share_dir, name)
    THEN [n \in DOMAIN files \cup {name} |->
            IF n = name THEN GetFileInfoEntry(share_dir, name, readable)
            ELSE files[n]]
    ELSE files

ScanVisitInPlace(name, readable) ==
    /\ scan.pc = "iterating"
    /\ name \in scan.todo
    /\ scan' = [scan EXCEPT !.todo = @ \ {name},
                            !.files = Visited(@, name, readable)]
    /\ available_files' = scan'.files
    /\ out' = NoOut
    /\ UNCHANGED <<lockFrame, events, file_lock, handler, finished>>

\* One turn of the loop: is_file, _get_file_info, files[name] = file_info.
\* The map being built is local to the call.
ScanVisit(name, readable) ==
    /\ scan.pc = "iterating"
    /\ name \in scan.todo
    /\ scan' = [scan EXCEPT !.todo = @ \ {name},
                            !.files = Visited(@, name, readable)]
    /\ out' = NoOut
    /\ UNCHANGED <<lockFrame, events, available_files, file_lock, handler,
                   finished>>

\* The enumeration raises: the except branch returns {} and the catalog
\* is not assigned.
ScanRaises ==
    /\ scan.pc = "iterating"
    /\ scan' = ScanIdle
    /\ out' = NoOut
    /\ UNCHANGED <<lockFrame, events, available_files, file_lock, handler,
                   finished>>

\* `with self.file_lock:` after the loop.
ScanAcquire ==
    /\ scan.pc = "iterating"
    /\ scan.todo = {}
    /\ file_lock = Free
    /\ file_lock' = HeldByScan
    /\ scan' = [scan EXCEPT !.pc = "locked"]
    /\ out' = NoOut
    /\ UNCHANGED <<lockFrame, events, available_files, handler, finished>>

\* self.available_files = files, and the lock is released.
ScanReplace ==
    /\ scan.pc = "locked"
    /\ available_files' = scan.files
    /\ finished' = scan.files
    /\ file_lock' = Free
    /\ scan' = ScanIdle
    /\ out' = NoOut
    /\ UNCHANGED <<lockFrame, events, handler>>

HandlerOps == {"list_files", "get_file_info", "download_chunk"}

\* A connection thread enters `with self.file_lock:` in list_files,
\* get_file_info or download_chunk.
HandlerAcquire(c, op, filename) ==
    /\ handler[c].pc = "idle"
    /\ file_lock = Free
    /\ op = "list_files" => filename = Missing
    /\ op # "list_files" => filename # Missing
    /\ file_lock' = HeldBy(c)
    /\ handler' = [handler EXCEPT ![c] = [pc |-> "locked", op |-> op,
                                          filename |-> filename,
                                          file_path |-> FilePath(Missing)]]
    /\ out' = NoOut
    /\ UNCHANGED <<lockFrame, events, available_files, scan, finished>>

\* What the reader makes of the catalog it sees under the lock.
ReadCatalog(cat, op, filename) ==
    IF op = "list_files" THEN ~ListFiles(cat).raised
    ELSE IF op = "get_file_info"
    THEN GetFileInfo(cat, filename).resp.status = "success"
    ELSE DownloadChunkLookup(cat, filename).found

Read(c, op, observed, ok) ==
    [kind |-> "read", conn |-> c, op |-> op, observed |-> observed,
     ok |-> ok]

\* The frame of the handler on leaving the with block: download_chunk goes
\* on to the file at the path it looked up, the others return.
AfterLookup(h, cat) ==
    IF h.op = "download_chunk" /\ DownloadChunkLookup(cat, h.filename).found
    THEN [h EXCEPT !.pc = "reading",
                   !.file_path = DownloadChunkLookup(cat, h.filename).path]
    ELSE HandlerIdle

HandlerReadHoldsLock(c) ==
    /\ handler[c].pc = "locked"
    /\ out' = Read(c, handler[c].op, available_files,
                   ReadCatalog(available_files, handler[c].op,
                               handler[c].filename))
    /\ file_lock' = IF AfterLookup(handler[c], available_files).pc = "reading"
                    THEN file_lock ELSE Free
    /\ handler' = [handler EXCEPT ![c] = AfterLookup(@, available_files)]
    /\ UNCHANGED <<lockFrame, events, available_files, scan, finished>>

\* The body of the with block, and the release on leaving it.
HandlerRead(c) ==
    /\ handler[c].pc = "locked"
    /\ out' = Read(c, handler[c].op, available_files,
                   ReadCatalog(available_files, handler[c].op,
                               handler[c].filename))
    /\ file_lock' = Free
    /\ handler' = [handler EXCEPT ![c] = AfterLookup(@, available_files)]
    /\ UNCHANGED <<lockFrame, events, available_files, scan, finished>>

\* What download_chunk returned for the file it opened after the lookup.
ChunkServed(c, file_path, resp) ==
    [kind |-> "chunk", conn |-> c, file_path |-> file_path, resp |-> resp]

\* download_chunk after the with block: open, seek, read, encrypt; every
\* exception becomes an error response and handle_client loops on.
HandlerChunkRead(c, iv) ==
    /\ handler[c].pc = "reading"
    /\ out' = ChunkServed(c, handler[c].file_path,
                          DownloadChunkRead(share_dir, NodeDeriveKey(key),
                                            handler[c].file_path,
                                            [int |-> TRUE, v |-> 0], iv))
    /\ handler' = [handler EXCEPT ![c] = HandlerIdle]
    /\ UNCHANGED <<lockFrame, events, available_files, file_lock, scan,
                   finished>>

LockNext ==
    \/ \E name \in ScanNames : FsCreate(name, LockContent)
    \/ \E name \in ScanNames : FsDelete(name)
    \/ ScanBegin
    \/ \E name \in ScanNames, readable \in BOOLEAN : ScanVisit(name, readable)
    \/ ScanRaises
    \/ ScanAcquire
    \/ ScanReplace
    \/ \E c \in Conns, op \in HandlerOps, filename \in ScanNames \cup {Missing} :
          HandlerAcquire(c, op, filename)
    \/ \E c \in Conns : HandlerRead(c)
    \/ \E c \in Conns : HandlerChunkRead(c, 0)

(***************************************************************************)
(* The two modes of the watcher, from the end of __init__ to stop():       *)
(* start_file_watcher, its fallback to the polling thread, the server and  *)
(* stop().                                                                 *)
(***************************************************************************)
WatcherOutcomes ==
    {"started", "Observer raised", "schedule raised", "start raised"}

\* __init__ up to the call of start_file_watcher: self.observer = None, the
\* first scan done.
WatcherInit ==
    /\ share_dir \in LockDirs
    /\ key = "password"
    /\ available_files = ScanResult(share_dir, {})
    /\ running = FALSE
    /\ server_socket = "None"
    /\ observer = "None"
    /\ events = 0
    /\ pc = [c \in Conns |-> "none"]
    /\ path = [c \in Conns |-> FilePath(Missing)]
    /\ out = NoOut
    /\ WatchIdle

\* start_file_watcher has run.
Constructed == observer # "None" \/ polling_active # "unset"

ObserverAfterStartRaisedRuns(outcome) ==
    IF outcome \in {"started", "start raised"} THEN "running"
    ELSE IF outcome = "Observer raised" THEN "None"
    ELSE "unstarted"

\* self.observer after the try block of start_file_watcher: Observer(),
\* schedule and start each may raise; the observer thread runs only when
\* start returned.
ObserverAfter(outcome) ==
    IF outcome = "started" THEN "running"
    ELSE IF outcome = "Observer raised" THEN "None"
    ELSE "unstarted"

\* start_file_watcher, called once by __init__; its except branch calls
\* start_file_polling, which sets the flag and starts poll_files.
StartFileWatcher(outcome) ==
    /\ ~Constructed
    /\ observer' = ObserverAfter(outcome)
    /\ IF outcome = "started"
       THEN UNCHANGED <<polling_active, polling_thread, last_files>>
       ELSE /\ polling_active' = "True"
            /\ polling_thread' = "sleeping"
            /\ last_files' = DOMAIN available_files
    /\ out' = NoOut
    /\ UNCHANGED <<cr, scanVars, lockVars, storeVars, clientVars, stop_result,
                   share_dir, available_files, key, running, server_socket,
                   events, pc, path>>

\* One turn of poll_files: time.sleep(interval), scan_shared_files, the
\* added and removed names against last_files, then the test of
\* polling_active at the head of the loop.
PollFiles(bad, fails) ==
    /\ polling_thread = "sleeping"
    /\ available_files' = ScanCatalog(available_files, share_dir, bad, fails)
    /\ polling_thread' = IF polling_active = "True" THEN "sleeping"
                         ELSE "ended"
    /\ LET current_files == DOMAIN ScanReturn(share_dir, bad, fails)
       IN /\ out' = Scanned(fails, bad, current_files \ last_files,
                            last_files \ current_files)
          /\ last_files' = current_files
    /\ UNCHANGED <<cr, scanVars, lockVars, storeVars, clientVars,
                   polling_active, stop_result, share_dir, key, running,
                   server_socket, observer, events, pc, path>>

\* main: node.start_server() after P2PNode(config).
NodeStartServer(bindOk) == Constructed /\ StartServer(bindOk)

\* stop(), from the finally clause of start_server and again from main on
\* KeyboardInterrupt.
NodeStop ==
    /\ Constructed
    /\ server_socket # "None"
    /\ Stop

WatcherNext ==
    \/ \E outcome \in WatcherOutcomes : StartFileWatcher(outcome)
    \/ \E bindOk \in BOOLEAN : NodeStartServer(bindOk)
    \/ NodeStop
    \/ \E name \in ScanNames : FsCreate(name, LockContent)
    \/ \E name \in ScanNames : FsDelete(name)
    \/ \E fails \in BOOLEAN : UpdateAvailableFiles({}, fails)
    \/ \E fails \in BOOLEAN : PollFiles({}, fails)

(***************************************************************************)
(* Specifications.                                                         *)
(***************************************************************************)
Init == NoSubDirs /\ NodeInit /\ LockIdle /\ WatchIdle /\ CryptoIdle /\ ClientIdle /\ StoreIdle
Spec == Init /\ [][NodeNext]_vars

InitCrypto == NoSubDirs /\ NodeIdle /\ LockIdle /\ WatchIdle /\ CryptoInit /\ ClientIdle /\ StoreIdle
SpecCrypto == InitCrypto /\ [][CryptoNext]_vars

InitClient == NoSubDirs /\ NodeIdle /\ LockIdle /\ WatchIdle /\ CryptoIdle /\ ClientInit /\ StoreLoadedEmpty
SpecClient == InitClient /\ [][ClientNext]_vars

InitScan == ScanInit /\ LockIdle /\ WatchIdle /\ CryptoIdle /\ ClientIdle /\ StoreIdle
SpecScan == InitScan /\ [][ScanNext]_vars

\* The observer thread runs the handler of every event queued to it.
ObserverRuns ==
    WF_vars(\E bad \in SUBSET DOMAIN share_dir, fails \in BOOLEAN :
               UpdateAvailableFiles(bad, fails))
SpecScanLive == SpecScan /\ ObserverRuns

InitStore == NoSubDirs /\ NodeIdle /\ LockIdle /\ WatchIdle /\ CryptoIdle /\ ClientIdle /\ StoreIdle
SpecStore == InitStore /\ [][StoreNext]_vars

InitResume ==
    NoSubDirs /\ NodeIdle /\ LockIdle /\ WatchIdle /\ CryptoIdle /\ ClientInitPart
    /\ StoreLoadedEmpty
SpecResume == InitResume /\ [][ClientNext]_vars

InitWatcher ==
    NoSubDirs /\ WatcherInit /\ LockIdle /\ CryptoIdle /\ ClientIdle /\ StoreIdle
SpecWatcher == InitWatcher /\ [][WatcherNext]_vars

InitLock == NoSubDirs /\ LockInit /\ WatchIdle /\ CryptoIdle /\ ClientIdle /\ StoreIdle
SpecLock == InitLock /\ [][LockNext]_vars

(***************************************************************************)
(* Properties of the node (checked under Spec).  `out` is what the step    *)
(* just taken sent, so share_dir and available_files are the ones the      *)
(* handler read.                                                           *)
(***************************************************************************)
IsChunkAnswer ==
    /\ out.kind = "response"
    /\ "chunk_index" \in DOMAIN out.req

\* The file is in the catalog and is as the scan found it.
CataloguedUnchanged(name) ==
    /\ name \in DOMAIN share_dir
    /\ name \in DOMAIN available_files
    /\ available_files[name].kind = "info"
    /\ available_files[name].size = Len(share_dir[name])
    /\ available_files[name].hash = Md5(share_dir[name])

\* The bytes [i*C, min((i+1)*C, S)) of a file.
ChunkRange(content, i) ==
    [j \in 1..(Min((i + 1) * ChunkSize, Len(content)) - i * ChunkSize) |->
        content[i * ChunkSize + j]]

NodeFernet == NodeDeriveKey(key)
PlainOf(resp) ==
    IF resp.status = "success"
    THEN FernetDecrypt(NodeFernet, B64Decode(resp.chunk_data)).data
    ELSE <<-1>>    \* no byte: an answer without a chunk

RECURSIVE ServedInOrder(_, _, _)
ServedInOrder(name, i, n) ==
    IF i >= n THEN <<>>
    ELSE PlainOf(DownloadChunkRead(share_dir, NodeFernet, FilePath(name),
                                   [int |-> TRUE, v |-> i], 0))
         \o ServedInOrder(name, i + 1, n)

\* C1: for an unchanged catalogued file of S >= 1 bytes, download_chunk for
\* every index i in 0..ceil(S/C)-1 succeeds, encrypts exactly the bytes
\* [i*C, min((i+1)*C, S)) and reports their number as chunk_size; the
\* plaintexts of chunks 0..ceil(S/C)-1 concatenated in order are the file.
C1_ChunkExact ==
    /\ IsChunkAnswer /\ CataloguedUnchanged(out.req.filename)
         /\ Len(share_dir[out.req.filename]) >= 1
         /\ out.req.chunk_index.int
         /\ out.req.chunk_index.v \in
               0..(TotalChunks(Len(share_dir[out.req.filename])) - 1)
       => /\ out.resp.status = "success"
          /\ PlainOf(out.resp) =
               ChunkRange(share_dir[out.req.filename], out.req.chunk_index.v)
          /\ out.resp.chunk_size =
               Len(ChunkRange(share_dir[out.req.filename], out.req.chunk_index.v))
    /\ \A name \in DOMAIN share_dir :
          CataloguedUnchanged(name) /\ Len(share_dir[name]) >= 1
          => ServedInOrder(name, 0, TotalChunks(Len(share_dir[name])))
               = share_dir[name]

\* The last, shorter chunk of a file of more than one chunk was served.
C1_Witness ==
    /\ IsChunkAnswer /\ CataloguedUnchanged(out.req.filename)
    /\ out.req.chunk_index.int
    /\ out.req.chunk_index.v = 1
    /\ out.resp.status = "success"
    /\ out.resp.chunk_size = Len(share_dir[out.req.filename]) - ChunkSize
    /\ out.resp.chunk_size \in 1..(ChunkSize - 1)

\* C8: malformed JSON, and a JSON object with an unknown or missing
\* command, are answered with {status: error, message} ('Unknown command'
\* for the latter); the handler does not drop the connection over it, and
\* a valid request that follows on the same connection is served.
C8_ProtocolErrorAnswered ==
    /\ out.kind = "response" /\ out.req.wire = "malformed"
       => /\ out.resp = ErrorResponse("Invalid JSON")
          /\ pc[out.conn] = "reading"
    /\ out.kind = "response" /\ out.req.wire = "object" /\ IsProtocolError(out.req)
       => /\ out.resp = ErrorResponse("Unknown command")
          /\ pc[out.conn] = "reading"
    /\ out.kind = "closed" /\ IsProtocolError(out.req)
       => out.cause = "send raised"
    /\ out.kind = "response" /\ out.after_error /\ out.req.command = "list_files"
       => /\ out.resp.status = "success"
          /\ DOMAIN out.resp.files = DOMAIN available_files
          /\ \A n \in DOMAIN available_files :
                /\ out.resp.files[n].size = available_files[n].size
                /\ out.resp.files[n].hash = available_files[n].hash
    /\ out.kind = "response" /\ out.after_error
         /\ out.req.command = "get_file_info"
       => IF out.req.filename \in DOMAIN available_files
          THEN /\ out.resp.status = "success"
               /\ out.resp.file_info = available_files[out.req.filename]
          ELSE out.resp = ErrorResponse("File not found")

\* Right after an 'Unknown command' answer the same connection got its
\* file list.
C8_Witness ==
    /\ out.kind = "response"
    /\ out.after_error
    /\ out.req.command = "list_files"
    /\ out.resp.status = "success"
    /\ DOMAIN out.resp.files # {}
    /\ pc[out.conn] = "reading"

\* C9: download_chunk for a file the lookup found in the catalog and that is
\* in the share directory with S bytes, with chunk_index >= ceil(S/C), is
\* answered {status: error, message: 'Chunk not available'}, and the handler
\* goes on reading requests on that connection.
C9_ChunkNotAvailable ==
    IsChunkAnswer /\ out.req.filename \in DOMAIN share_dir
      /\ out.req.chunk_index.int
      /\ out.req.chunk_index.v >= TotalChunks(Len(share_dir[out.req.filename]))
    => /\ out.resp = ErrorResponse("Chunk not available")
       /\ pc[out.conn] = "reading"

\* Index MaxChunkIndex was asked of a file of two chunks.
C9_Witness ==
    /\ IsChunkAnswer /\ CataloguedUnchanged(out.req.filename)
    /\ out.req.chunk_index.int
    /\ out.req.chunk_index.v = MaxChunkIndex
    /\ TotalChunks(Len(share_dir[out.req.filename])) = 2
    /\ out.resp = ErrorResponse("Chunk not available")

\* C10: a handler that ends on an exception or an I/O error closes its own
\* connection only: the accept loop is still running on the listening
\* socket, every other handler is where it was, the catalog is unchanged.
C10_ErrorClosesOnlyThatConnection ==
    [][\A c \in Conns :
         pc[c] # "none" /\ out'.kind = "closed" /\ out'.conn = c
         => /\ pc'[c] = "none"
            /\ running' = running
            /\ server_socket' = server_socket
            /\ observer' = observer
            /\ available_files' = available_files
            /\ \A d \in Conns \ {c} : pc'[d] = pc[d] /\ path'[d] = path[d]]_vars

\* A handler ended on an exception while the node runs and another
\* connection is half-way through a download_chunk.
C10_Witness ==
    /\ out.kind = "closed"
    /\ out.cause = "process_request raised"
    /\ running
    /\ server_socket = "listening"
    /\ \E d \in Conns \ {out.conn} : pc[d] = "lookedup"

(***************************************************************************)
(* Properties of the cipher round trip (checked under SpecCrypto).         *)
(***************************************************************************)

\* C2: for every passphrase p of at least 8 characters and every plaintext
\* chunk, what the node seals under the key it derives from p is opened to
\* the same plaintext by a client Crypto built from the same p, and a
\* client built from any other passphrase fails to open it.
C2_SamePassphraseRoundTrip ==
    cr.stage = "opened" /\ Len(cr.node_pw) >= MinKeyLen
    => IF cr.client_pw = cr.node_pw
       THEN cr.result.ok /\ cr.result.data = cr.plain
       ELSE ~cr.result.ok

(***************************************************************************)
(* Properties of the client (checked under SpecClient).                    *)
(***************************************************************************)
Completed == dl.pc = "returned" /\ dl.ended = "completed"

\* The size get_file_info reported is the size of the file the peer serves.
SizeAsServed == dl.file_size = Len(srv_file)

\* The first k chunks of the peer's file, in order.
FirstChunks(k) == SubSeq(srv_file, 1, Min(k * ChunkSize, Len(srv_file)))

\* C3: for any file size S >= 0 and any k in 0..ceil(S/C), when an attempt
\* was cut short after k chunks were written and a later attempt with
\* resume enabled runs to completion against the unchanged file, the final
\* file is byte for byte the file an uninterrupted download produces (the
\* peer's file: see C6_CompleteAtFinalPath).
C3_ResumedEqualsUninterrupted ==
    Completed /\ dl.resume /\ hist.resumed_from >= 0 /\ SizeAsServed
    => fs_final = FileOf(srv_file)

\* An attempt cut short after the first of two chunks was followed by one
\* that completed.
C3_Witness ==
    /\ Completed /\ dl.resume /\ SizeAsServed
    /\ hist.resumed_from = 1
    /\ TotalChunks(dl.file_size) = 2
    /\ fs_final = FileOf(srv_file)

\* C4: after an attempt with resume enabled was cut short with k >= 1 whole
\* chunks written, the next attempt (resume enabled) asks first for chunk k,
\* never for chunks 0..k-1, and keeps the k*C bytes already written.
C4_ResumeStartsAtK ==
    /\ dl.pc = "chunks" /\ dl.resume /\ hist.resumed_resume /\ SizeAsServed
         /\ hist.resumed_from >= 1
         /\ hist.resumed_from < TotalChunks(dl.file_size)
       => /\ dl.chunk_index >= hist.resumed_from
          /\ hist.first_req \in {-1, hist.resumed_from}
          /\ SubSeq(fs_final.data, 1, Len(FirstChunks(hist.resumed_from)))
               = FirstChunks(hist.resumed_from)

\* C5: when an attempt aborts at chunk i (non-success response, no
\* response, decryption failure), the local partial data is the plaintexts
\* of the chunks written before i, in order; the abort writes nothing of the
\* failed chunk, removes or truncates nothing, and leaves the Resume Store
\* as it was.
C5_AbortKeepsPartial ==
    /\ [](dl.pc = "returned" /\ dl.ended = "aborted"
           => fs_final = FileOf(FirstChunks(dl.chunk_index)))
    /\ [][dl.pc = "chunks" /\ dl'.pc = "returned" /\ dl'.ended = "aborted"
           => /\ fs_final' = fs_final
              /\ fs_temp' = fs_temp
              /\ download_states' = download_states
              /\ dl'.chunk_index = dl.chunk_index]_vars

\* An attempt aborted at the second chunk with the first one written.
C5_Witness ==
    /\ dl.pc = "returned" /\ dl.ended = "aborted"
    /\ dl.chunk_index = 1
    /\ fs_final = FileOf(FirstChunks(1))
    /\ Len(fs_final.data) = ChunkSize

C7_InFlightIsRegistered ==
    dl.pc = "chunks" \/ dl.ended \in {"aborted", "interrupted"}
    => /\ DownloadName \in DOMAIN download_states
       /\ download_states[DownloadName].active
       /\ download_states[DownloadName].downloaded = Len(fs_final.data)
       /\ DownloadName \in DOMAIN ListIncompleteDownloads(download_states)

(***************************************************************************)
(* Further properties of the node (checked under Spec).                    *)
(***************************************************************************)

\* A path directly inside the share directory.
InsideShare(p) == p[1] = "share_dir" /\ p[2] \in ShareNames

\* C11: whatever filename a get_file_info or download_chunk request carries
\* (a path out of the share directory included), a file is opened only after
\* the lookup found the filename as a key of the catalog, the path opened is
\* that entry's path, directly inside the share directory; a filename that
\* is no key of the catalog is answered 'File not found' with no file read.
C11_OnlyCataloguedOpened ==
    /\ [](\A c \in Conns : pc[c] = "lookedup" => InsideShare(path[c]))
    /\ [](out.kind = "response"
           /\ out.req.command \in {"get_file_info", "download_chunk"}
           /\ out.req.filename \in FileNames \cup {Missing}
           /\ out.req.filename \notin DOMAIN available_files
           /\ ~IsChunkAnswer
           => out.resp = ErrorResponse("File not found"))
    /\ [][\A c \in Conns :
           /\ pc[c] = "reading" /\ pc'[c] = "lookedup"
              => \E name \in DOMAIN available_files :
                    /\ available_files[name].kind = "info"
                    /\ path'[c] = available_files[name].path
                    /\ path'[c] = FilePath(name)
           /\ out'.kind = "response" /\ out'.conn = c
                /\ "chunk_index" \in DOMAIN out'.req
              => /\ pc[c] = "lookedup"
                 /\ InsideShare(path[c])
                 /\ out'.req.filename = path[c][2]]_vars

\* A download_chunk for a path out of the share directory was answered
\* 'File not found' while another connection had looked its file up.
C11_Witness ==
    /\ out.kind = "response"
    /\ out.req.command = "download_chunk"
    /\ out.req.filename = "../b.txt"
    /\ out.resp = ErrorResponse("File not found")
    /\ DOMAIN available_files # {}
    /\ \E d \in Conns \ {out.conn} : pc[d] = "lookedup"

\* C12: a scan that fails (the enumeration of the directory raises, or the
\* read of a file raises) leaves the catalog as it was before the scan.
C12_FailedScanKeepsCatalog ==
    [][out'.kind = "scan" /\ (out'.enum_failed \/ out'.unreadable # {})
       => available_files' = available_files]_vars

(***************************************************************************)
(* Properties of the scan (checked under SpecScan).                        *)
(***************************************************************************)

\* C13: after every scan the keys of the catalog are exactly the names of
\* the regular files directly under the share directory that do not start
\* with '.': no hidden file, no directory, no file of a subdirectory.
C13_CatalogIsVisibleFiles ==
    out.kind = "scan" /\ ~out.enum_failed
    => DOMAIN available_files = {n \in DOMAIN share_dir : n \notin HiddenNames}

\* The catalog entry of a file no longer matches the file's bytes.
Stale(name) ==
    /\ name \in DOMAIN share_dir
    /\ name \in DOMAIN available_files
    /\ available_files[name].kind = "info"
    /\ \/ available_files[name].size # Len(share_dir[name])
       \/ available_files[name].hash # Md5(share_dir[name])

NoScanFails == out.kind = "scan" => ~out.enum_failed /\ out.unreadable = {}

\* C14 (checked under SpecScanLive): when a catalogued file is modified in
\* place while the node runs, its entry's size and hash eventually match the
\* new content, given that no scan fails.
C14_ModifiedIsRecomputed ==
    []NoScanFails => \A name \in ScanNames : Stale(name) ~> ~Stale(name)

(***************************************************************************)
(* Properties of the resume store (checked under SpecStore).               *)
(***************************************************************************)

\* C15: when the process dies during a save, the state file parses, as the
\* complete store before the save or the complete store the save was
\* writing; no load finds a file it cannot parse and starts from an empty
\* store because of it.
C15_CrashLeavesParsableStore ==
    /\ out.kind = "store" /\ out.save = "crash" => state_file.kind = "json"
    /\ out.kind = "store" /\ out.op = "load" => state_file.kind # "corrupt"

\* C16: after a load no entry in memory is as old as the retention window;
\* when entries were discarded and the rewrite succeeded, the state file
\* holds exactly the retained entries; a load never adds to the state file,
\* and a second load at once finds nothing to discard.
C16_LoadKeepsOnlyFresh ==
    /\ [](out.kind = "store" /\ out.op = "load" /\ out.save \in {"ok", "none"}
          => /\ \A n \in DOMAIN download_states :
                   now - download_states[n].timestamp < Retention
             /\ out.discarded => state_file = JsonFile(download_states)
             /\ state_file.kind = "json"
                  => /\ state_file.states = download_states
                     /\ ValidStates(state_file.states, now) = state_file.states)
    /\ [][out'.kind = "store" /\ out'.op = "load" /\ state_file'.kind = "json"
           => /\ state_file.kind = "json"
              /\ DOMAIN state_file'.states \subseteq DOMAIN state_file.states]_vars

\* A load discarded one entry, kept the other and rewrote the state file.
C16_Witness ==
    /\ out.kind = "store" /\ out.op = "load"
    /\ out.discarded /\ out.save = "ok"
    /\ Cardinality(DOMAIN download_states) = 1
    /\ state_file = JsonFile(download_states)

(***************************************************************************)
(* Further properties of the node (checked under Spec).                    *)
(***************************************************************************)

\* C17: two download_chunk requests for the same filename and chunk index,
\* answered one after the other with the file unchanged, get the same
\* chunk_data and the same chunk_size.
C17_RepeatedChunkIdentical ==
    [][/\ out.kind = "response" /\ "chunk_index" \in DOMAIN out.req
       /\ out'.kind = "response" /\ "chunk_index" \in DOMAIN out'.req
       /\ out'.req = out.req
       /\ share_dir' = share_dir
       => /\ out'.resp.status = out.resp.status
          /\ out.resp.status = "success"
               => /\ out'.resp.chunk_size = out.resp.chunk_size
                  /\ out'.resp.chunk_data = out.resp.chunk_data]_vars

(***************************************************************************)
(* Further properties of the cipher (checked under SpecCrypto).            *)
(***************************************************************************)

\* C18: a key of fewer than 8 characters is rejected at construction on
\* both ends: no client Crypto is built from one, and no node configured
\* with one gets to seal a chunk.
C18_ShortKeyRejectedBothEnds ==
    /\ cr.stage \in {"constructed", "sealed", "opened"}
         => Len(cr.client_pw) >= MinKeyLen
    /\ cr.stage \in {"sealed", "opened"} => Len(cr.node_pw) >= MinKeyLen

(***************************************************************************)
(* Further properties of the client (checked under SpecClient).            *)
(***************************************************************************)

\* C19: download_file_chunked returns a path, and the command exits with
\* code 0, only when the file at that path has exactly the size
\* get_file_info reported; in every other outcome it returns nothing and
\* the command exits with a code other than 0.
C19_SuccessOnlyOnExactSize ==
    dl.pc = "returned"
    => IF fs_final.exists /\ Len(fs_final.data) = dl.file_size
            /\ dl.ended = "completed"
       THEN TRUE
       ELSE dl.result = "None" /\ ExitCode(dl.result) # 0

(***************************************************************************)
(* Properties of the threads at the catalog (checked under SpecLock).      *)
(***************************************************************************)

\* A scan is under way and its local map holds some but not all it will.
ScanPartlyDone ==
    scan.pc = "iterating" /\ DOMAIN scan.files # {} /\ scan.todo # {}

\* C20: whenever a connection handler reads the catalog (list_files,
\* get_file_info, the lookup of download_chunk) the map it sees is the whole
\* map one scan built by running to its end; the replacement of the catalog
\* and the reads exclude each other under file_lock; no handler sees a map
\* that a scan under way has filled in part.
C20_ReadsSeeFinishedScan ==
    /\ out.kind = "read" => out.observed = finished
    /\ scan.pc = "locked" => \A c \in Conns : handler[c].pc # "locked"
    /\ \A c \in Conns : handler[c].pc = "locked" =>
          /\ file_lock = HeldBy(c)
          /\ available_files = finished

C20_Witness ==
    /\ out.kind = "read"
    /\ ScanPartlyDone
    /\ scan.files # out.observed
    /\ out.observed = finished

\* The file a served chunk was to come from, by name.
ServedName == out.file_path[2]

\* C21: download_chunk holds file_lock for the lookup of the path only,
\* never while it reads the file, so a scan that is ready to replace the
\* catalog is not kept waiting by a chunk read under way; when the file is
\* deleted (and the catalog rescanned) between the lookup and the read, the
\* request is answered with an error response and the handler goes on to
\* its next request.
C21_ChunkReadOutsideLock ==
    /\ \A c \in Conns : handler[c].pc = "reading" => file_lock # HeldBy(c)
    /\ (/\ scan.pc = "iterating" /\ scan.todo = {}
        /\ \A c \in Conns : handler[c].pc # "locked")
       => file_lock = Free
    /\ (out.kind = "chunk" /\ ServedName \notin DOMAIN share_dir)
       => /\ out.resp.status = "error"
          /\ handler[out.conn].pc = "idle"

C21_Witness ==
    /\ out.kind = "chunk"
    /\ ServedName \notin DOMAIN share_dir
    /\ ServedName \notin DOMAIN available_files
    /\ out.resp.status = "error"
    /\ handler[out.conn].pc = "idle"

(***************************************************************************)
(* Further properties of the node (checked under Spec).                    *)
(***************************************************************************)

\* C22: every request a handler reads, whatever it holds (JSON that is not
\* an object, a request whose handling raises), gets exactly one response
\* before the next is read; a connection is closed on the peer's end of
\* stream or on an I/O error only.
C22_EveryRequestAnswered ==
    /\ out.kind = "closed"
       => out.cause \in {"peer closed", "recv raised", "send raised"}
    /\ out.kind = "closed" /\ out.req # NoReq => out.cause = "send raised"

(***************************************************************************)
(* Resuming from a .part file (checked under SpecResume).                  *)
(***************************************************************************)

\* The step that takes download_file_chunked from its call into the chunk
\* loop, with resume enabled and a .part file in place.
ResumesOverPart ==
    dl.pc # "chunks" /\ dl'.pc = "chunks" /\ dl'.resume /\ fs_temp.exists

\* C23: with resume enabled and a .part file of length L in place, a
\* download keeps the file and resumes with existing_size = L when
\* L <= total_size (for L = total_size it asks for no chunk and finalizes);
\* only when L > total_size is the .part file deleted and the download
\* started again at 0.
C23_KeepsPartUpToTotalSize ==
    [][ResumesOverPart =>
         IF Len(fs_temp.data) <= dl'.file_size
         THEN /\ fs_temp' = fs_temp
              /\ dl'.existing_size = Len(fs_temp.data)
              /\ (Len(fs_temp.data) = dl'.file_size
                    => dl'.chunk_index >= TotalChunks(dl'.file_size))
         ELSE /\ fs_temp' = NoFile
              /\ dl'.existing_size = 0]_vars

\* C24: when a download resumes from partial data of a length L that is no
\* multiple of the chunk size C, the partial data is cut back to
\* floor(L/C)*C bytes before chunks floor(L/C).. are appended, so the
\* completed file repeats no bytes and has exactly total_size bytes.
C24_ResumeCutsBackToBoundary ==
    /\ (/\ dl.pc = "chunks" /\ dl.existing_size > 0
        /\ dl.existing_size % ChunkSize # 0)
       => /\ fs_temp.exists
          /\ Len(fs_temp.data) = dl.start_chunk * ChunkSize
    /\ (Completed /\ dl.existing_size > 0 /\ SizeAsServed)
       => /\ Len(fs_final.data) = dl.file_size
          /\ fs_final.data = srv_file

\* The step in which download_file_chunked returns on a failed
\* get_file_info.
ReturnsOnInfoFailure ==
    /\ hist'.attempts = hist.attempts + 1
    /\ dl'.pc = "returned"
    /\ dl'.ended = "info failed"

\* C25: when get_file_info gives an error response or none,
\* download_file_chunked returns failure, has sent no download_chunk
\* request, and has created, truncated or deleted no local file and no
\* entry of the resume store.
C25_InfoFailureTouchesNothing ==
    [][ReturnsOnInfoFailure =>
         /\ dl'.result = "None"
         /\ ExitCode(dl'.result) # 0
         /\ hist'.first_req = -1
         /\ fs_final' = fs_final
         /\ fs_temp' = fs_temp
         /\ download_states' = download_states
         /\ state_file' = state_file]_vars

C25_Witness ==
    /\ dl.pc = "returned"
    /\ dl.ended = "info failed"
    /\ dl.result = "None"
    /\ fs_final = FileOf(OldCopy)
    /\ fs_temp.exists

(***************************************************************************)
(* The destination of a download (checked under SpecClient).               *)
(***************************************************************************)

\* C26: at every point during and after a download attempt the final path
\* is untouched (absent, or holding what it held before the attempt) or
\* holds the complete file; partial data is in the .part file only, so an
\* aborted attempt leaves no partial file at the final path and destroys no
\* earlier complete copy there.
C26_FinalPathUntouchedOrComplete ==
    SizeAsServed => fs_final \in {NoFile, FileOf(OldCopy), FileOf(srv_file)}

(***************************************************************************)
(* Properties of the watcher (checked under SpecWatcher).                  *)
(***************************************************************************)

\* C27: at every moment at most one of the two watcher modes (the observer,
\* the polling thread) is active; polling is started only during start-up
\* and only when the observer failed to initialize, never mid-run.
C27_OneWatcherMode ==
    /\ [](~(observer = "running" /\ polling_thread = "sleeping"))
    /\ [][polling_thread' # polling_thread /\ polling_thread = "none"
            => /\ ~Constructed
               /\ observer' \in {"None", "unstarted"}
               /\ ~running /\ server_socket = "None"]_vars
    /\ [][polling_active' = "True" => polling_active \in {"unset", "True"}]_vars

C27_Witness ==
    /\ polling_thread = "sleeping"
    /\ polling_active = "True"
    /\ observer = "unstarted"
    /\ running
    /\ server_socket = "listening"

\* C28: after stop() was called the watcher is stopped in whichever mode was
\* active (the observer is stopped, or the polling loop ends and scans no
\* more) and the listening socket is closed; also when the node had fallen
\* back to polling, and when stop() is called twice.
C28_StopStopsWatcherAndSocket ==
    stop_result # "not called"
    => /\ observer # "running"
       /\ polling_active # "True"
       /\ server_socket # "listening"

(***************************************************************************)
(* Recorded progress (checked under SpecStore).                            *)
(***************************************************************************)

\* Every download in memory is in the state file with a downloaded value
\* less than one saving interval away.
PersistedWithin(mem, file) ==
    /\ file.kind = "json"
    /\ \A n \in DOMAIN mem :
          /\ n \in DOMAIN file.states
          /\ mem[n].downloaded - file.states[n].downloaded < ProgressSaveEvery
          /\ file.states[n].downloaded - mem[n].downloaded < ProgressSaveEvery

\* The step is a call of update_progress whose save, if it made one, did
\* its work.
UpdateProgressStep ==
    out'.kind = "store" /\ out'.op = "update" /\ out'.save \in {"ok", "none"}

\* C29: for every sequence of update_progress calls on a registered file,
\* after each call the persisted downloaded value is less than one MiB (one
\* saving interval) away from the value in memory, so a crash loses at most
\* one MiB of recorded progress.
C29_PersistedProgressWithinInterval ==
    [][PersistedWithin(download_states, state_file) /\ UpdateProgressStep
        => PersistedWithin(download_states', state_file')]_vars

\* C30: in every reachable state of the resume store each entry has
\* downloaded <= total_size, and the downloaded value of an entry never
\* decreases over any sequence of register_download and update_progress
\* calls for its filename.
C30_DownloadedBoundedAndMonotonic ==
    /\ [](\A n \in DOMAIN download_states :
            download_states[n].downloaded <= download_states[n].total_size)
    /\ [][(out'.kind = "store" /\ out'.op \in {"register", "update"})
           => \A n \in DOMAIN download_states \cap DOMAIN download_states' :
                 download_states'[n].downloaded
                   >= download_states[n].downloaded]_vars

(***************************************************************************)
(* The catalog as the handlers see it (checked under Spec).                *)
(***************************************************************************)

\* The request just handled is list_files, or get_file_info for a name in
\* the catalog.
AsksForCatalogued ==
    /\ out.kind \in {"response", "closed"}
    /\ out.req.wire = "object"
    /\ \/ out.req.command = "list_files"
       \/ /\ out.req.command = "get_file_info"
          /\ out.req.filename \in DOMAIN available_files

\* C31: every catalog entry a connection handler can see carries a size, a
\* hash and a path, so list_files and get_file_info on a catalogued name
\* always give a well-formed success response and never raise, also after
\* a scan in which a file of the share directory could not be read.
C31_CatalogEntriesWellFormed ==
    /\ \A n \in DOMAIN available_files : available_files[n].kind = "info"
    /\ AsksForCatalogued /\ out.kind = "closed" => out.cause = "send raised"
    /\ AsksForCatalogued /\ out.kind = "response"
       => /\ out.resp.status = "success"
          /\ out.req.command = "get_file_info"
                => out.resp.file_info.kind = "info"

(***************************************************************************)
(* The names a refresh reports (checked under SpecWatcher).                *)
(***************************************************************************)

\* C32: after every refresh of the catalog, by an event or by polling, the
\* names reported added and removed are the set differences of the keys of
\* the catalog before and after the refresh; a refresh that leaves the
\* catalog as it was (a failed scan) reports nothing added and nothing
\* removed.
C32_ReportedDiffIsCatalogDiff ==
    [][out'.kind = "scan"
        => /\ out'.added = DOMAIN available_files' \ DOMAIN available_files
           /\ out'.removed = DOMAIN available_files \ DOMAIN available_files'
      ]_vars

====
